---------------------------- MODULE Spec2Model ----------------------------
(***************************************************************************)
(* Model of the repository-statistics endpoint:                            *)
(*   backend/app/api/v1/repo_stats.py          (parse_repo_url,            *)
(*                                              analyze_repository)        *)
(*   backend/app/services/github/repo_stats.py (GitHubRepoStatsService)    *)
(*                                                                         *)
(* Strings that the code inspects character by character (the repository   *)
(* identifier) are sequences of one-character strings.  JSON values and    *)
(* Python results are tagged records, so that values of different Python   *)
(* types can be compared.                                                  *)
(***************************************************************************)
EXTENDS Integers, Sequences, FiniteSets, TLC

VARIABLES
    hpc,        \* analyze_repository: position of the request handler
    repo_url,   \* request.repo_url
    token,      \* settings.github_token is configured
    ident,      \* (owner, repo) as returned by parse_repo_url
    session,    \* GitHubRepoStatsService.session: "none" | "open" | "closed"
    sent,       \* per category: number of GET requests issued upstream
    upstream,   \* per category: what the upstream call did (or Pending)
    gathered,   \* per category: the entry of asyncio.gather's result list
    outcome,    \* what get_comprehensive_stats returned or raised
    response,   \* the HTTP response of analyze_repository
    fpc,        \* position of a single call of one of the pure functions
    arg,        \* its argument
    ret         \* its return value

vars == <<hpc, repo_url, token, ident, session, sent, upstream, gathered,
          outcome, response, fpc, arg, ret>>

handlerVars == <<hpc, repo_url, token, ident, session, sent, upstream,
                 gathered, outcome, response>>

callVars == <<fpc, arg, ret>>

(***************************************************************************)
(* Bounds of the model.                                                    *)
(***************************************************************************)
MaxOwnerLen == 2
MaxRepoLen == 3
MaxItems == 3
MaxWeeks == 20
MaxStep == 3

(***************************************************************************)
(* Python values.                                                          *)
(***************************************************************************)
None == [t |-> "None"]

Returned(v) == [t |-> "value", v |-> v]

Raised(kind, msg) == [t |-> "exception", kind |-> kind, msg |-> msg]

IsException(r) == r.t = "exception"

Min(a, b) == IF a < b THEN a ELSE b

RECURSIVE SumTotals(_)
SumTotals(s) ==
    IF s = << >> THEN 0 ELSE s[1].total + SumTotals(Tail(s))

(***************************************************************************)
(* parse_repo_url                                                          *)
(***************************************************************************)
Letters ==
    {"a","b","c","d","e","f","g","h","i","j","k","l","m",
     "n","o","p","q","r","s","t","u","v","w","x","y","z",
     "A","B","C","D","E","F","G","H","I","J","K","L","M",
     "N","O","P","Q","R","S","T","U","V","W","X","Y","Z"}

Digits == {"0","1","2","3","4","5","6","7","8","9"}

\* [a-zA-Z0-9]
Alnum == Letters \cup Digits

\* [-a-zA-Z0-9]
OwnerTailClass == Alnum \cup {"-"}

\* [a-zA-Z0-9._-]
RepoClass == Alnum \cup {".", "_", "-"}

Whitespace == {" "}

Slash == "/"

\* The argument of rstrip('.git'): a set of characters, not a suffix.
DotGitChars == {".", "g", "i", "t"}

DotGit == <<".", "g", "i", "t">>

GithubCom == <<"g","i","t","h","u","b",".","c","o","m">>

RECURSIVE LStripChars(_, _)
LStripChars(s, chars) ==
    IF s # << >> /\ s[1] \in chars THEN LStripChars(Tail(s), chars) ELSE s

RECURSIVE RStripChars(_, _)
\* str.rstrip(chars): drops every trailing character that is in chars.
RStripChars(s, chars) ==
    IF s # << >> /\ s[Len(s)] \in chars
    THEN RStripChars(SubSeq(s, 1, Len(s) - 1), chars)
    ELSE s

Strip(s) == RStripChars(LStripChars(s, Whitespace), Whitespace)

RStripDotGit(s) == RStripChars(s, DotGitChars)

\* repo_input.strip().rstrip('/').rstrip('.git')
Normalize(s) == RStripDotGit(RStripChars(Strip(s), {Slash}))

StartsWithAt(s, p, pre) ==
    /\ p + Len(pre) - 1 <= Len(s)
    /\ SubSeq(s, p, p + Len(pre) - 1) = pre

EndsWith(s, suf) ==
    /\ Len(s) >= Len(suf)
    /\ SubSeq(s, Len(s) - Len(suf) + 1, Len(s)) = suf

NoSlash(s) == \A i \in 1..Len(s) : s[i] # Slash

\* ([^/]+)/([^/]+?)(?:\.git)?$ matched against the whole of r.  The owner
\* group cannot cross a slash and must be followed by one; the repo group is
\* lazy, so it leaves a final ".git" to the optional group when it can.
UrlTailMatch(r) ==
    LET slashes == {i \in 1..Len(r) : r[i] = Slash} IN
    IF slashes = {} THEN None
    ELSE
      LET k == CHOOSE i \in slashes : \A j \in slashes : i <= j
          owner == SubSeq(r, 1, k - 1)
          q == SubSeq(r, k + 1, Len(r))
          repo == IF EndsWith(q, DotGit) /\ Len(q) > Len(DotGit)
                  THEN SubSeq(q, 1, Len(q) - Len(DotGit))
                  ELSE q
      IN IF owner # << >> /\ q # << >> /\ NoSlash(q)
         THEN Returned(<<owner, repo>>)
         ELSE None

\* github\.com[:/] at position p, then the rest of the pattern.
UrlMatchAt(s, p) ==
    IF /\ StartsWithAt(s, p, GithubCom)
       /\ p + Len(GithubCom) <= Len(s)
       /\ s[p + Len(GithubCom)] \in {":", Slash}
    THEN UrlTailMatch(SubSeq(s, p + Len(GithubCom) + 1, Len(s)))
    ELSE None

\* re.search(r'github\.com[:/]([^/]+)/([^/]+?)(?:\.git)?$', s): leftmost match.
SearchUrl(s) ==
    LET hits == {p \in 1..Len(s) : UrlMatchAt(s, p).t = "value"} IN
    IF hits = {} THEN None
    ELSE UrlMatchAt(s, CHOOSE p \in hits : \A q \in hits : p <= q)

\* re.search(r'^([a-zA-Z0-9][-a-zA-Z0-9]*)/([a-zA-Z0-9._-]+)$', s)
SearchShort(s) ==
    LET slashes == {i \in 1..Len(s) : s[i] = Slash} IN
    IF Cardinality(slashes) # 1 THEN None
    ELSE
      LET k == CHOOSE i \in slashes : TRUE
          owner == SubSeq(s, 1, k - 1)
          repo == SubSeq(s, k + 1, Len(s))
      IN IF /\ owner # << >>
            /\ owner[1] \in Alnum
            /\ \A i \in 2..Len(owner) : owner[i] \in OwnerTailClass
            /\ repo # << >>
            /\ \A i \in 1..Len(repo) : repo[i] \in RepoClass
         THEN Returned(<<owner, repo>>)
         ELSE None

InvalidFormat(s) == Raised("ValueError", [text |-> "Invalid repository format", what |-> s])

parse_repo_url(repo_input) ==
    LET s == Normalize(repo_input)
        url == SearchUrl(s)
        short == SearchShort(s)
    IN IF url.t = "value" THEN url
       ELSE IF short.t = "value" THEN short
       ELSE InvalidFormat(s)

(***************************************************************************)
(* JSON as decoded by response.json().                                     *)
(***************************************************************************)
JNull == "null"

JList(items) == [t |-> "list", v |-> items]

JObject(fields) == [t |-> "dict", v |-> fields]

\* A JSON value that is not an object: calling .get on it raises.
NotAnObject == [t |-> "str"]

IsList(j) == j.t = "list"

IsDict(j) == j.t = "dict"

\* Python truthiness of a decoded body (None, [] and {} are false).
Truthy(j) ==
    CASE j.t = "None" -> FALSE
      [] j.t = "list" -> j.v # << >>
      [] j.t = "dict" -> DOMAIN j.v # {}
      [] OTHER -> TRUE

AttributeError == Raised("AttributeError", "object has no attribute 'get'")

(***************************************************************************)
(* GitHubRepoStatsService._make_request                                    *)
(***************************************************************************)
Status(code, body) == [k |-> "status", code |-> code, body |-> body]

TimedOut == [k |-> "timeout"]

TransportError == [k |-> "error"]

make_request(resp) ==
    IF resp.k = "status" THEN
        IF resp.code = 200 THEN resp.body
        ELSE IF resp.code = 404 THEN None
        ELSE IF resp.code = 403 THEN None
        ELSE None
    ELSE IF resp.k = "timeout" THEN None
    ELSE None

(***************************************************************************)
(* The per-category fetchers, as functions of what _make_request returned. *)
(***************************************************************************)
get_repo_info(raw) == Returned(raw)

get_contributors(raw) ==
    IF Truthy(raw) /\ IsList(raw) THEN
        IF \E i \in 1..Len(raw.v) : ~IsDict(raw.v[i]) THEN AttributeError
        ELSE Returned([i \in 1..Len(raw.v) |->
                 [login |-> raw.v[i].login,
                  contributions |-> raw.v[i].contributions]])
    ELSE Returned(<< >>)

EmptyPullRequests ==
    [open |-> 0, closed |-> 0, merged |-> 0, total |-> 0, details |-> << >>]

\* DisplayState with the merge timestamp tested before the raw state.
DisplayStateMergedFirst(pr) ==
    IF pr.merged_at # JNull THEN "merged"
    ELSE IF pr.state = "open" THEN "open"
    ELSE "closed"

\* Lines 110-121: the display state of one pull request.
DisplayState(pr) ==
    IF pr.state = "open" THEN "open"
    ELSE IF pr.merged_at # JNull THEN "merged"
    ELSE "closed"

RECURSIVE PullRequestLoop(_, _, _)
\* The for loop of get_pull_requests from item i on; acc holds the counters
\* and the details built so far.
PullRequestLoop(prs, i, acc) ==
    IF i > Len(prs) THEN Returned([acc EXCEPT !.total = Len(prs)])
    ELSE
      LET pr == prs[i]
          display_state == DisplayState(pr)
      IN IF ~IsDict(pr) THEN AttributeError
         ELSE IF pr.user = JNull THEN AttributeError
         ELSE PullRequestLoop(prs, i + 1,
                [acc EXCEPT
                   !.open = @ + (IF display_state = "open" THEN 1 ELSE 0),
                   !.merged = @ + (IF display_state = "merged" THEN 1 ELSE 0),
                   !.closed = @ + (IF display_state = "closed" THEN 1 ELSE 0),
                   !.details = Append(@, [number |-> pr.number,
                                          state |-> display_state,
                                          author |-> pr.user])])

get_pull_requests(raw) ==
    IF ~Truthy(raw) \/ ~IsList(raw) THEN Returned(EmptyPullRequests)
    ELSE PullRequestLoop(raw.v, 1, EmptyPullRequests)

EmptyIssues == [open |-> 0, closed |-> 0, total |-> 0, details |-> << >>]

\* "pull_request" not in i
NotPullRequest(i) == ~i.pull_request

\* sum(1 for i in actual_issues if i.get("state") == state)
StateCount(issues, state) ==
    Cardinality({k \in 1..Len(issues) : issues[k].state = state})

\* ActualIssues without the filter.
ActualIssuesUnfiltered(issues) == issues

\* actual_issues = [i for i in issues if "pull_request" not in i]
ActualIssues(issues) == SelectSeq(issues, NotPullRequest)

get_issues(raw) ==
    IF ~Truthy(raw) \/ ~IsList(raw) THEN Returned(EmptyIssues)
    ELSE IF \E i \in 1..Len(raw.v) : ~IsDict(raw.v[i]) THEN AttributeError
    ELSE
      LET actual_issues == ActualIssues(raw.v) IN
      IF \E i \in 1..Len(actual_issues) : actual_issues[i].user = JNull
      THEN AttributeError
      ELSE Returned(
             [open |-> StateCount(actual_issues, "open"),
              closed |-> StateCount(actual_issues, "closed"),
              total |-> Len(actual_issues),
              details |-> [i \in 1..Len(actual_issues) |->
                  [number |-> actual_issues[i].number,
                   state |-> actual_issues[i].state,
                   author |-> actual_issues[i].user]]])

\* The number of weekly buckets get_commit_activity keeps.
RecentWeeks == 12

\* Days since 1970-01-01 to (year, month, day) of the proleptic Gregorian
\* calendar.
CivilFromDays(days) ==
    LET z == days + 719468
        era == z \div 146097
        doe == z - era * 146097
        yoe == (doe - doe \div 1460 + doe \div 36524 - doe \div 146096) \div 365
        doy == doe - (365 * yoe + yoe \div 4 - yoe \div 100)
        mp == (5 * doy + 2) \div 153
        d == doy - (153 * mp + 2) \div 5 + 1
        m == IF mp < 10 THEN mp + 3 ELSE mp - 9
        y == yoe + era * 400
    IN [year |-> IF m <= 2 THEN y + 1 ELSE y, month |-> m, day |-> d]

\* datetime.fromtimestamp(epoch).strftime("%Y-%m-%d") in a process whose
\* local time is utc_offset seconds ahead of UTC.
FormatLocalDate(epoch, utc_offset) ==
    LET seconds_per_day == 86400 IN
    CivilFromDays((epoch + utc_offset) \div seconds_per_day)

\* RecentActivity keeping the first buckets instead of the last.
RecentActivityOldest(activity) ==
    IF Len(activity) > RecentWeeks
    THEN SubSeq(activity, 1, RecentWeeks)
    ELSE activity

\* activity[-12:] if len(activity) > 12 else activity
RecentActivity(activity) ==
    IF Len(activity) > RecentWeeks
    THEN SubSeq(activity, Len(activity) - RecentWeeks + 1, Len(activity))
    ELSE activity

get_commit_activity(raw, utc_offset) ==
    IF Truthy(raw) /\ IsList(raw) THEN
        LET recent_activity == RecentActivity(raw.v) IN
        IF \E i \in 1..Len(recent_activity) : ~IsDict(recent_activity[i])
        THEN AttributeError
        ELSE Returned([i \in 1..Len(recent_activity) |->
                 [week |-> FormatLocalDate(recent_activity[i].week, utc_offset),
                  total |-> recent_activity[i].total,
                  days |-> recent_activity[i].days]])
    ELSE Returned(<< >>)

EmptyLanguages == JObject(<< >>)

get_languages(raw) == IF Truthy(raw) THEN Returned(raw) ELSE Returned(EmptyLanguages)

get_releases(raw) ==
    IF Truthy(raw) /\ IsList(raw) THEN
        IF \E i \in 1..Len(raw.v) : ~IsDict(raw.v[i]) THEN AttributeError
        ELSE Returned([i \in 1..Len(raw.v) |->
                 [tag_name |-> raw.v[i].tag_name,
                  prerelease |-> raw.v[i].prerelease]])
    ELSE Returned(<< >>)

(***************************************************************************)
(* Inputs of the single-call specifications.                               *)
(***************************************************************************)
SeqsUpTo(S, n) == UNION {[1..k -> S] : k \in 0..n}

OwnerAlphabet == {"a", "G", "7", "-"}

RepoAlphabet == {"a", "R", "g", "i", "t", ".", "_", "-"}

\* Owners the shorthand pattern accepts.
ValidOwners ==
    {o \in SeqsUpTo(OwnerAlphabet, MaxOwnerLen) : o # << >> /\ o[1] \in Alnum}

\* Repository names the shorthand pattern accepts.
ValidRepos == SeqsUpTo(RepoAlphabet, MaxRepoLen) \ {<< >>}

UrlPrefix ==
    <<"h","t","t","p","s",":","/","/">> \o GithubCom \o <<Slash>>

Forms == {"short", "url", "url.git", "url/", "url.git/"}

FormText(owner, repo, form) ==
    LET path == owner \o <<Slash>> \o repo IN
    CASE form = "short" -> path
      [] form = "url" -> UrlPrefix \o path
      [] form = "url.git" -> UrlPrefix \o path \o DotGit
      [] form = "url/" -> UrlPrefix \o path \o <<Slash>>
      [] form = "url.git/" -> UrlPrefix \o path \o DotGit \o <<Slash>>

ParseArgs ==
    {[owner |-> o, repo |-> r, form |-> f, text |-> FormText(o, r, f)] :
        o \in ValidOwners, r \in ValidRepos, f \in Forms}

Users == {"octocat", JNull}

PullShapes ==
    [state : {"open", "closed"},
     merged_at : {JNull, "2024-05-01T10:00:00Z"},
     user : Users]

\* Upstream lists of n items; item i carries number i.
PullLists ==
    UNION {{[i \in 1..n |->
               [t |-> "dict", number |-> i, state |-> f[i].state,
                merged_at |-> f[i].merged_at, user |-> f[i].user]] :
            f \in [1..n -> PullShapes]} : n \in 0..MaxItems}

PullArgs == {None} \cup {JList(l) : l \in PullLists}

IssueShapes ==
    [state : {"open", "closed"}, pull_request : BOOLEAN, user : Users]

IssueLists ==
    UNION {{[i \in 1..n |->
               [t |-> "dict", number |-> i, state |-> f[i].state,
                pull_request |-> f[i].pull_request, user |-> f[i].user]] :
            f \in [1..n -> IssueShapes]} : n \in 0..MaxItems}

IssueArgs == {None} \cup {JList(l) : l \in IssueLists}

\* n weekly buckets starting with the week of Sunday 2024-01-07T00:00:00Z;
\* the commits of bucket i are (i * step) % 7, all made on the first day of
\* the week.
WeekList(n, step) ==
    LET first_week == 1704585600
        seconds_per_week == 604800
    IN
    [i \in 1..n |->
        [t |-> "dict",
         week |-> first_week + (i - 1) * seconds_per_week,
         total |-> (i * step) % 7,
         days |-> [d \in 1..7 |-> IF d = 1 THEN (i * step) % 7 ELSE 0]]]

\* Local time zones of the server process, in seconds east of UTC.
UtcOffsets == {-28800, 0, 19800}

CommitArgs ==
    {[raw |-> None, utc_offset |-> 0]} \cup
    {[raw |-> JList(WeekList(n, step)), utc_offset |-> z] :
        n \in 0..MaxWeeks, step \in 1..MaxStep, z \in UtcOffsets}

(***************************************************************************)
(* Single calls of the pure functions.                                     *)
(***************************************************************************)
NoFetches == [c \in {} |-> None]

HandlerIdle ==
    /\ hpc = "idle"
    /\ repo_url = << >>
    /\ token = TRUE
    /\ ident = None
    /\ session = "none"
    /\ sent = NoFetches
    /\ upstream = NoFetches
    /\ gathered = NoFetches
    /\ outcome = None
    /\ response = None

InitCall(args) ==
    /\ HandlerIdle
    /\ fpc = "call"
    /\ arg \in args
    /\ ret = None

Call(result) ==
    /\ fpc = "call"
    /\ fpc' = "done"
    /\ ret' = result
    /\ UNCHANGED arg
    /\ UNCHANGED handlerVars

InitParse == InitCall(ParseArgs)

CallParse == Call(parse_repo_url(arg.text))

SpecParse == InitParse /\ [][CallParse]_vars

InitPulls == InitCall(PullArgs)

CallPulls == Call(get_pull_requests(arg))

SpecPulls == InitPulls /\ [][CallPulls]_vars

InitIssues == InitCall(IssueArgs)

CallIssues == Call(get_issues(arg))

SpecIssues == InitIssues /\ [][CallIssues]_vars

InitCommits == InitCall(CommitArgs)

CallCommits == Call(get_commit_activity(arg.raw, arg.utc_offset))

SpecCommits == InitCommits /\ [][CallCommits]_vars

(***************************************************************************)
(* get_comprehensive_stats                                                 *)
(***************************************************************************)
Categories ==
    {"repo_info", "contributors", "pull_requests", "issues",
     "commit_activity", "languages", "releases"}

\* The coroutine asyncio.gather runs for a category, applied to what
\* _make_request returned to it.
Fetcher(c, raw) ==
    CASE c = "repo_info" -> get_repo_info(raw)
      [] c = "contributors" -> get_contributors(raw)
      [] c = "pull_requests" -> get_pull_requests(raw)
      [] c = "issues" -> get_issues(raw)
      [] c = "commit_activity" -> get_commit_activity(raw, 0)
      [] c = "languages" -> get_languages(raw)
      [] c = "releases" -> get_releases(raw)

\* EmptyDefault with the default of pull_requests pasted for issues.
EmptyDefaultPasted(c) ==
    CASE c = "repo_info" -> None
      [] c = "contributors" -> << >>
      [] c = "pull_requests" -> EmptyPullRequests
      [] c = "issues" -> EmptyPullRequests
      [] c = "commit_activity" -> << >>
      [] c = "languages" -> EmptyLanguages
      [] c = "releases" -> << >>

\* The value lines 252-272 put in place of an exception.
EmptyDefault(c) ==
    CASE c = "repo_info" -> None
      [] c = "contributors" -> << >>
      [] c = "pull_requests" -> EmptyPullRequests
      [] c = "issues" -> EmptyIssues
      [] c = "commit_activity" -> << >>
      [] c = "languages" -> EmptyLanguages
      [] c = "releases" -> << >>

\* if isinstance(x, Exception): x = <empty default>
HandleException(c, result) ==
    IF IsException(result) THEN EmptyDefault(c) ELSE result.v

RepoName(owner, repo) == owner \o <<Slash>> \o repo

RepositoryNotFound(owner, repo) ==
    Raised("ValueError",
           [text |-> "Repository not found", what |-> RepoName(owner, repo)])

\* Metrics with open_prs read from the total of the pull requests.
MetricsFromTotal(repo_info, contributors, pull_requests, issues, commit_activity) ==
    [total_contributors |-> Len(contributors),
     total_commits_recent |->
        IF commit_activity # << >> THEN SumTotals(commit_activity) ELSE 0,
     stars |-> repo_info.v.stargazers_count,
     forks |-> repo_info.v.forks_count,
     open_prs |-> pull_requests.total,
     open_issues |-> issues.open]

\* Lines 278 and 305-312.
Metrics(repo_info, contributors, pull_requests, issues, commit_activity) ==
    [total_contributors |-> Len(contributors),
     total_commits_recent |->
        IF commit_activity # << >> THEN SumTotals(commit_activity) ELSE 0,
     stars |-> repo_info.v.stargazers_count,
     forks |-> repo_info.v.forks_count,
     open_prs |-> pull_requests.open,
     open_issues |-> issues.open]

\* InfoMissing without the check of line 274.
InfoMissingUnchecked(repo_info) == FALSE

\* if not repo_info
InfoMissing(repo_info) == ~Truthy(repo_info)

\* Lines 251-313: from the result list of asyncio.gather to the returned
\* envelope or the raised exception.
Aggregated(owner, repo, results) ==
    LET repo_info == HandleException("repo_info", results["repo_info"])
        contributors == HandleException("contributors", results["contributors"])
        pull_requests == HandleException("pull_requests", results["pull_requests"])
        issues == HandleException("issues", results["issues"])
        commit_activity == HandleException("commit_activity", results["commit_activity"])
        languages == HandleException("languages", results["languages"])
        releases == HandleException("releases", results["releases"])
    IN IF InfoMissing(repo_info) THEN RepositoryNotFound(owner, repo)
       ELSE IF ~IsDict(repo_info) THEN AttributeError
       ELSE Returned(
              [status |-> "success",
               repo |-> RepoName(owner, repo),
               repository |-> [name |-> repo_info.v.name,
                               full_name |-> repo_info.v.full_name,
                               stars |-> repo_info.v.stargazers_count,
                               forks |-> repo_info.v.forks_count],
               contributors |-> contributors,
               pull_requests |-> pull_requests,
               issues |-> issues,
               commit_activity |-> commit_activity,
               languages |-> languages,
               releases |-> releases,
               metrics |-> Metrics(repo_info, contributors, pull_requests,
                                   issues, commit_activity)])

(***************************************************************************)
(* What the upstream API answers.                                          *)
(***************************************************************************)
Pending == [k |-> "pending"]

InFlight == [k |-> "inflight"]

GoodBody(c) ==
    CASE c = "repo_info" ->
           JObject([name |-> "b", full_name |-> "a/b",
                    stargazers_count |-> 42, forks_count |-> 7])
      [] c = "contributors" ->
           JList(<<[t |-> "dict", login |-> "octocat", contributions |-> 9],
                   [t |-> "dict", login |-> "hubot", contributions |-> 4]>>)
      [] c = "pull_requests" ->
           JList(<<[t |-> "dict", number |-> 1, state |-> "open",
                    merged_at |-> JNull, user |-> "octocat"],
                   [t |-> "dict", number |-> 2, state |-> "closed",
                    merged_at |-> "2024-05-01T10:00:00Z", user |-> "hubot"],
                   [t |-> "dict", number |-> 3, state |-> "closed",
                    merged_at |-> JNull, user |-> "octocat"]>>)
      [] c = "issues" ->
           JList(<<[t |-> "dict", number |-> 4, state |-> "open",
                    pull_request |-> FALSE, user |-> "octocat"],
                   [t |-> "dict", number |-> 1, state |-> "open",
                    pull_request |-> TRUE, user |-> "octocat"],
                   [t |-> "dict", number |-> 5, state |-> "closed",
                    pull_request |-> FALSE, user |-> "hubot"]>>)
      [] c = "commit_activity" -> JList(WeekList(RecentWeeks + 2, 2))
      [] c = "languages" -> JObject([Python |-> 9000, TypeScript |-> 1200])
      [] c = "releases" ->
           JList(<<[t |-> "dict", tag_name |-> "v1.0", prerelease |-> FALSE]>>)

\* A 200 body of an unexpected shape.  For repo_info it is a non-empty list,
\* which the aggregator then reads as an object; for the list categories it
\* makes the fetcher raise (a pull request or issue whose user is null, an
\* item that is not an object).  get_languages reads nothing of its body.
BadBody(c) ==
    CASE c = "pull_requests" ->
           JList(<<[t |-> "dict", number |-> 1, state |-> "open",
                    merged_at |-> JNull, user |-> JNull]>>)
      [] c = "issues" ->
           JList(<<[t |-> "dict", number |-> 4, state |-> "open",
                    pull_request |-> FALSE, user |-> JNull]>>)
      [] OTHER -> JList(<<NotAnObject>>)

\* The non-200 statuses a category is answered with.  _make_request treats
\* every category alike; repo_info is given each of its status branches, the
\* other categories one status each (202 is what the statistics endpoint
\* answers while it computes).
ErrorStatuses(c) ==
    CASE c = "repo_info" -> {404, 403, 500}
      [] c = "contributors" -> {404}
      [] c = "pull_requests" -> {403}
      [] c = "issues" -> {500}
      [] c = "commit_activity" -> {202}
      [] c = "languages" -> {403}
      [] c = "releases" -> {404}

Responses(c) ==
    {Status(200, GoodBody(c))}
    \cup (IF c = "languages" THEN {} ELSE {Status(200, BadBody(c))})
    \cup {Status(code, None) : code \in ErrorStatuses(c)}
    \cup {TimedOut, TransportError}

(***************************************************************************)
(* analyze_repository                                                      *)
(***************************************************************************)
HttpResponse(status, body) == [status |-> status, body |-> body]

\* Lines 175-185, and line 173 for a returned result.
HandlerResponse(result) ==
    IF result.t = "value" THEN HttpResponse(200, result.v)
    ELSE IF result.kind = "HTTPException" THEN HttpResponse(result.msg.status, result.msg.detail)
    ELSE IF result.kind = "ValueError" THEN HttpResponse(404, result.msg)
    ELSE HttpResponse(500, [text |-> "Failed to analyze repository", what |-> result.msg])

HTTPException(status, detail) ==
    Raised("HTTPException", [status |-> status, detail |-> detail])

TokenNotConfigured ==
    Raised("ValueError", [text |-> "GitHub token not configured", what |-> << >>])

\* __aexit__ closing the session only when the block ended without an exception.
aexit_unless_exception(sess, exc) ==
    IF sess # "none" /\ exc.t = "value" THEN "closed" ELSE sess

\* GitHubRepoStatsService.__aexit__
aexit(sess, exc) == IF sess # "none" THEN "closed" ELSE sess

\* A gather that also returns as soon as the repository-info task has ended
\* without a result.
GatherDoneOnInfo(up) ==
    \/ \A c \in Categories : up[c] \notin {Pending, InFlight}
    \/ up["repo_info"].k \in {"timeout", "error"}
    \/ up["repo_info"].k = "status" /\ up["repo_info"].code # 200

\* asyncio.gather(..., return_exceptions=True) is done when every task is.
GatherDone(up) == \A c \in Categories : up[c] \notin {Pending, InFlight}

RequestInputs ==
    {FormText(<<"a">>, <<"b">>, "short"),
     FormText(<<"a">>, <<"g", "i", "t">>, "short"),
     <<"n", "o", " ", "r", "e", "p", "o">>}

Init ==
    /\ hpc = "received"
    /\ repo_url \in RequestInputs
    /\ token \in BOOLEAN
    /\ ident = None
    /\ session = "none"
    /\ sent = [c \in Categories |-> 0]
    /\ upstream = [c \in Categories |-> Pending]
    /\ gathered = [c \in Categories |-> None]
    /\ outcome = None
    /\ response = None
    /\ fpc = "idle"
    /\ arg = None
    /\ ret = None

\* Lines 160-163.
Parse ==
    /\ hpc = "received"
    /\ LET r == parse_repo_url(repo_url) IN
       IF IsException(r)
       THEN /\ response' = HandlerResponse(HTTPException(400, r.msg))
            /\ hpc' = "done"
            /\ UNCHANGED ident
       ELSE /\ ident' = r.v
            /\ hpc' = "parsed"
            /\ UNCHANGED response
    /\ UNCHANGED <<repo_url, token, session, sent, upstream, gathered, outcome>>
    /\ UNCHANGED callVars

\* GitHubRepoStatsService(): line 168 and __init__.
Construct ==
    /\ hpc = "parsed"
    /\ IF ~token
       THEN /\ response' = HandlerResponse(TokenNotConfigured)
            /\ hpc' = "done"
       ELSE /\ hpc' = "constructed"
            /\ UNCHANGED response
    /\ session' = "none"
    /\ UNCHANGED <<repo_url, token, ident, sent, upstream, gathered, outcome>>
    /\ UNCHANGED callVars

\* __aenter__
Enter ==
    /\ hpc = "constructed"
    /\ session' = "open"
    /\ hpc' = "entered"
    /\ UNCHANGED <<repo_url, token, ident, sent, upstream, gathered, outcome, response>>
    /\ UNCHANGED callVars

\* get_comprehensive_stats up to the await of asyncio.gather: the seven
\* coroutines become tasks and each issues its GET request.
StartGather ==
    /\ hpc = "entered"
    /\ hpc' = "gathering"
    /\ sent' = [c \in Categories |-> sent[c] + 1]
    /\ upstream' = [c \in Categories |-> InFlight]
    /\ UNCHANGED <<repo_url, token, ident, session, gathered, outcome, response>>
    /\ UNCHANGED callVars

\* The upstream call of category c ends with resp and the task completes.
Complete(c, resp) ==
    /\ hpc = "gathering"
    /\ upstream[c] = InFlight
    /\ upstream' = [upstream EXCEPT ![c] = resp]
    /\ gathered' = [gathered EXCEPT ![c] = Fetcher(c, make_request(resp))]
    /\ UNCHANGED <<hpc, repo_url, token, ident, session, sent, outcome, response>>
    /\ UNCHANGED callVars

\* asyncio.gather returns; lines 251-313 run without suspending.
Aggregate ==
    /\ hpc = "gathering"
    /\ GatherDone(upstream)
    /\ outcome' = Aggregated(ident[1], ident[2], gathered)
    /\ hpc' = "aggregated"
    /\ UNCHANGED <<repo_url, token, ident, session, sent, upstream, gathered, response>>
    /\ UNCHANGED callVars

\* Leaving the async with block, by return or by exception.
Exit ==
    /\ hpc = "aggregated"
    /\ session' = aexit(session, outcome)
    /\ hpc' = "exited"
    /\ UNCHANGED <<repo_url, token, ident, sent, upstream, gathered, outcome, response>>
    /\ UNCHANGED callVars

\* Lines 171-185.
Respond ==
    /\ hpc = "exited"
    /\ response' = HandlerResponse(outcome)
    /\ hpc' = "done"
    /\ UNCHANGED <<repo_url, token, ident, session, sent, upstream, gathered, outcome>>
    /\ UNCHANGED callVars

Next ==
    \/ Parse
    \/ Construct
    \/ Enter
    \/ StartGather
    \/ \E c \in Categories : \E resp \in Responses(c) : Complete(c, resp)
    \/ Aggregate
    \/ Exit
    \/ Respond

Spec == Init /\ [][Next]_vars

(***************************************************************************)
(* Properties of the single calls.                                         *)
(***************************************************************************)

\* C4: for every valid owner and valid repository name, parse_repo_url
\* returns exactly (owner, repo) for the shorthand and for each URL form of
\* it (with or without ".git", with or without a trailing slash).
C4_ParseReturnsOwnerRepo ==
    fpc = "done" => ret = Returned(<<arg.owner, arg.repo>>)

\* The display state the ordered rule of C6 gives a pull request.
C6_Rule(state, merged_at) ==
    IF state = "open" THEN "open"
    ELSE IF merged_at # JNull THEN "merged"
    ELSE "closed"

C6_Counted(items, display) ==
    Cardinality({i \in 1..Len(items) :
                    C6_Rule(items[i].state, items[i].merged_at) = display})

\* C6: in what get_pull_requests returns for an upstream list, item i of
\* details is upstream item i with the display state of the ordered rule
\* (open, else merged when the merge timestamp is not null, else closed), and
\* the counters open, merged and closed each count the items of their
\* display state, so that every item is counted exactly once.
C6_DisplayStateRule ==
    (fpc = "done" /\ IsList(arg) /\ ret.t = "value") =>
        /\ Len(ret.v.details) = Len(arg.v)
        /\ \A i \in 1..Len(arg.v) :
              /\ ret.v.details[i].number = arg.v[i].number
              /\ ret.v.details[i].state =
                    C6_Rule(arg.v[i].state, arg.v[i].merged_at)
              /\ (arg.v[i].state = "closed" /\ arg.v[i].merged_at # JNull)
                    => ret.v.details[i].state = "merged"
              /\ arg.v[i].state = "open" => ret.v.details[i].state = "open"
        /\ ret.v.open = C6_Counted(arg.v, "open")
        /\ ret.v.merged = C6_Counted(arg.v, "merged")
        /\ ret.v.closed = C6_Counted(arg.v, "closed")
        /\ ret.v.open + ret.v.merged + ret.v.closed = Len(arg.v)
        /\ ret.v.total = Len(arg.v)

\* A call that returned counters for a list holding a closed pull request
\* with a merge timestamp and an open one with a merge timestamp.
C6_Witness ==
    /\ fpc = "done"
    /\ IsList(arg)
    /\ ret.t = "value"
    /\ \E i \in 1..Len(arg.v) :
          arg.v[i].state = "closed" /\ arg.v[i].merged_at # JNull
    /\ \E i \in 1..Len(arg.v) :
          arg.v[i].state = "open" /\ arg.v[i].merged_at # JNull
    /\ ret.v.merged = 1
    /\ ret.v.open >= 1

\* The positions of the upstream items that carry no pull-request linkage.
C7_Genuine(items) == {i \in 1..Len(items) : ~items[i].pull_request}

\* The j-th smallest element of a set of positions.
C7_Nth(positions, j) ==
    CHOOSE k \in positions : Cardinality({m \in positions : m <= k}) = j

\* C7: what get_issues returns for an upstream list holds in details exactly
\* the items without a pull-request linkage field, in upstream order; total
\* is their number, and open and closed count only those items.
C7_PullRequestsExcluded ==
    (fpc = "done" /\ IsList(arg) /\ ret.t = "value") =>
        LET genuine == C7_Genuine(arg.v) IN
        /\ Len(ret.v.details) = Cardinality(genuine)
        /\ \A j \in 1..Len(ret.v.details) :
              /\ ret.v.details[j].number = arg.v[C7_Nth(genuine, j)].number
              /\ ret.v.details[j].state = arg.v[C7_Nth(genuine, j)].state
        /\ ret.v.total = Cardinality(genuine)
        /\ ret.v.open =
              Cardinality({i \in genuine : arg.v[i].state = "open"})
        /\ ret.v.closed =
              Cardinality({i \in genuine : arg.v[i].state = "closed"})

\* A call on a list of one item with the linkage and one without: total 1.
C7_Witness ==
    /\ fpc = "done"
    /\ IsList(arg)
    /\ Len(arg.v) = 2
    /\ arg.v[1].pull_request
    /\ ~arg.v[2].pull_request
    /\ ret.t = "value"
    /\ ret.v.total = 1
    /\ ret.v.details[1].number = 2

\* C8: for an upstream payload of n weekly buckets get_commit_activity
\* returns min(n, 12) entries, which are in order the last min(n, 12)
\* buckets of the input with their total and days; for n = 20 that is
\* exactly 12 entries.
C8_LastTwelveWeeks ==
    (fpc = "done" /\ IsList(arg.raw)) =>
        LET n == Len(arg.raw.v)
            m == Min(n, 12)
        IN /\ ret.t = "value"
           /\ Len(ret.v) = m
           /\ \A j \in 1..m :
                 /\ ret.v[j].total = arg.raw.v[n - m + j].total
                 /\ ret.v[j].days = arg.raw.v[n - m + j].days
           /\ n = 20 => Len(ret.v) = 12

\* A call on 20 buckets that returned 12 entries, not all with the same total.
C8_Witness ==
    /\ fpc = "done"
    /\ IsList(arg.raw)
    /\ Len(arg.raw.v) = 20
    /\ Len(ret.v) = 12
    /\ ret.v[1].total # ret.v[12].total
    /\ ret.v[12].total = arg.raw.v[20].total

(***************************************************************************)
(* Properties of a request.                                                *)
(***************************************************************************)
Others == Categories \ {"repo_info"}

\* get_comprehensive_stats has returned or raised.
Finished == outcome # None

\* The upstream call of c gave _make_request nothing to return: a non-200
\* status, a timeout or a transport error.
NoResult(c) ==
    \/ upstream[c].k \in {"timeout", "error"}
    \/ upstream[c].k = "status" /\ upstream[c].code # 200

\* The category failed: its call gave no result, or its fetcher raised.
CategoryFailed(c) == NoResult(c) \/ IsException(gathered[c])

\* The repository-info fetch yielded a repository object.
InfoFetched ==
    /\ upstream["repo_info"].k = "status"
    /\ upstream["repo_info"].code = 200
    /\ IsDict(upstream["repo_info"].body)

\* The empty defaults as C1 lists them.
C1_Empty(c) ==
    CASE c = "contributors" -> << >>
      [] c = "pull_requests" ->
           [open |-> 0, closed |-> 0, merged |-> 0, total |-> 0, details |-> << >>]
      [] c = "issues" ->
           [open |-> 0, closed |-> 0, total |-> 0, details |-> << >>]
      [] c = "commit_activity" -> << >>
      [] c = "languages" -> JObject(<< >>)
      [] c = "releases" -> << >>

\* C1: when the repository-info fetch yielded a repository, whatever subset
\* of the other six categories failed (non-200 status, timeout, transport
\* error, fetcher raising), get_comprehensive_stats returns an envelope with
\* status "success" in which each failed category holds its empty default
\* and every other category holds what its fetcher returned; the handler
\* answers 200 with that envelope.
C1_PartialFailureTolerated ==
    (Finished /\ InfoFetched) =>
        /\ outcome.t = "value"
        /\ outcome.v.status = "success"
        /\ \A c \in Others :
              outcome.v[c] =
                 IF CategoryFailed(c) THEN C1_Empty(c) ELSE gathered[c].v
        /\ hpc = "done" => response = HttpResponse(200, outcome.v)

\* A finished request in which contributors timed out, pull requests raised,
\* issues, commit activity and languages got no result, and releases were
\* fetched: the envelope is a success with releases kept.
C1_Witness ==
    /\ hpc = "done"
    /\ InfoFetched
    /\ upstream["contributors"] = TimedOut
    /\ IsException(gathered["pull_requests"])
    /\ upstream["issues"].k = "status" /\ upstream["issues"].code = 500
    /\ upstream["commit_activity"].k = "status"
    /\ upstream["commit_activity"].code = 202
    /\ upstream["languages"] = TransportError
    /\ ~CategoryFailed("releases")
    /\ response.status = 200
    /\ response.body.status = "success"
    /\ response.body.contributors = << >>
    /\ response.body.metrics.total_contributors = 0
    /\ Len(response.body.releases) = 1

\* C2: when the repository-info fetch yielded no result, whatever the other
\* six fetches did, get_comprehensive_stats raises RepositoryNotFound naming
\* owner/repo and never returns an envelope.
C2_MissingInfoIsNotFound ==
    (Finished /\ NoResult("repo_info")) =>
        /\ outcome = Raised("ValueError",
                            [text |-> "Repository not found",
                             what |-> ident[1] \o <<"/">> \o ident[2]])
        /\ outcome.t # "value"
        /\ hpc = "done" => response.status = 404

\* A finished request whose repository-info call was answered 404 while the
\* other six categories were all fetched.
C2_Witness ==
    /\ hpc = "done"
    /\ upstream["repo_info"].k = "status"
    /\ upstream["repo_info"].code = 404
    /\ \A c \in Others : ~CategoryFailed(c)
    /\ outcome.kind = "ValueError"
    /\ outcome.msg.what = <<"a", "/", "b">>
    /\ response.status = 404

\* C3: a parse failure gives 400, RepositoryNotFound gives 404, success gives
\* the envelope, any other failure after parsing (constructing, entering or
\* running the aggregator) gives 500; a 404 is produced only when the
\* repository-info fetch yielded no result.
C3_StatusMapping ==
    hpc = "done" =>
        /\ IsException(parse_repo_url(repo_url)) <=> response.status = 400
        /\ response.status = 200 <=> outcome.t = "value"
        /\ response.status = 200 => response.body = outcome.v
        /\ response.status = 404 =>
              /\ GatherDone(upstream)
              /\ NoResult("repo_info")
        /\ (/\ ~IsException(parse_repo_url(repo_url))
            /\ outcome.t # "value"
            /\ ~(GatherDone(upstream) /\ NoResult("repo_info")))
              => response.status = 500

\* C5: the session acquired for a request is released on every exit path:
\* no request ends with its session open, and a request that acquired one
\* ends with it closed, whether the aggregation returned an envelope, raised
\* RepositoryNotFound or failed unexpectedly.
C5_SessionReleased ==
    /\ hpc = "done" => session # "open"
    /\ (hpc \in {"exited", "done"} /\ GatherDone(upstream)) => session = "closed"
    /\ session = "open" => hpc \in {"entered", "gathering", "aggregated"}

\* A request that acquired a session, failed unexpectedly during aggregation
\* and ended with the session closed.
C5_Witness ==
    /\ hpc = "done"
    /\ GatherDone(upstream)
    /\ outcome.t = "exception"
    /\ outcome.kind = "AttributeError"
    /\ response.status = 500
    /\ session = "closed"

\* C9: in every returned envelope the metrics agree with the sections of the
\* same envelope: total_commits_recent is the sum of total over
\* commit_activity, open_prs is pull_requests.open, open_issues is
\* issues.open, total_contributors is the length of contributors.
C9_MetricsConsistent ==
    (Finished /\ outcome.t = "value") =>
        LET e == outcome.v IN
        /\ e.metrics.total_commits_recent = SumTotals(e.commit_activity)
        /\ e.metrics.open_prs = e.pull_requests.open
        /\ e.metrics.open_issues = e.issues.open
        /\ e.metrics.total_contributors = Len(e.contributors)

\* An envelope whose issues and contributors are empty defaults while pull
\* requests and commit activity were fetched, with non-zero metrics.
C9_Witness ==
    /\ Finished
    /\ outcome.t = "value"
    /\ CategoryFailed("issues")
    /\ CategoryFailed("contributors")
    /\ outcome.v.metrics.open_prs = 1
    /\ outcome.v.pull_requests.total = 3
    /\ outcome.v.metrics.total_commits_recent > 0
    /\ Len(outcome.v.commit_activity) = 12
    /\ outcome.v.metrics.open_issues = 0
    /\ outcome.v.metrics.total_contributors = 0

\* C10: get_comprehensive_stats produces its outcome only after all seven
\* fetches have completed, in every interleaving: while any fetch is in
\* flight there is no outcome, even when the repository-info fetch has
\* already ended without a result; and every category is requested exactly
\* once per request.
C10_FanInBeforeOutcome ==
    /\ (\E c \in Categories : upstream[c] \in {Pending, InFlight}) =>
          (outcome = None /\ hpc \notin {"aggregated", "exited"})
    /\ Finished => \A c \in Categories : sent[c] = 1 /\ gathered[c] # None
    /\ \A c \in Categories : sent[c] <= 1
    /\ \A c \in Categories : (upstream[c] # Pending) => sent[c] = 1

\* The repository-info fetch has ended with a 404 while the other six are
\* still in flight, and the aggregator is still waiting.
C10_Witness ==
    /\ hpc = "gathering"
    /\ upstream["repo_info"].k = "status"
    /\ upstream["repo_info"].code = 404
    /\ \A c \in Others : upstream[c] = InFlight /\ sent[c] = 1
    /\ outcome = None

=============================================================================
